---- MODULE Spec2Model ----
(***************************************************************************)
(* Segregated-free-list allocator of src/mm.c: boundary-tagged blocks in   *)
(* one growable arena, nine singly linked bucket lists, first-fit search,  *)
(* split on placement and eager coalescing on free.                        *)
(*                                                                         *)
(* Memory is modelled word by word (4-byte words).  A pointer stored in a  *)
(* free block's payload takes two words (low half, high half).             *)
(***************************************************************************)
EXTENDS Integers, Sequences, FiniteSets, TLC

\* ---------------------------------------------------------------- constants
ALIGNMENT == 8
WSIZE == 4
DSIZE == 8
NULL == 0
\* number of bucket heads written by mm_init
NBUCKETS == 9
\* size of the block overhead added by malloc (header + footer)
OVERHEAD == 8

\* Machine words are scaled down so that every value fits the model checker's
\* integers: an unsigned int (4 bytes in the program) has WordBits bits,
\* and size_t and pointers (8 bytes, two words) have 2 * WordBits bits.
WordBits == 12
UINT_MOD == 2^WordBits
INT_MAXP1 == 2^(WordBits - 1)
SIZE_MOD == 2^(2 * WordBits)

\* (void *)-1, the failure value of mem_sbrk (all bits set)
SbrkFail == SIZE_MOD - 1

\* ------------------------------------------------------------------ bounds
\* the arena (the bytes after the first 80) may grow to 8 * MaxUnits bytes
MaxUnits == 8
\* the caller performs at most MaxOps operations after mm_init
MaxOps == 6

\* request sizes the caller draws from (bytes)
Requests == {4, 12}

\* ------------------------------------------------------- the growth primitive
\* first byte of the region handed out by the first mem_sbrk call
mem_start_brk == 8
\* one past the last byte the primitive can ever hand out
mem_max_addr == mem_start_brk + 10 * DSIZE + 8 * MaxUnits

\* word addresses of the heap (bucket heads are kept in heap_listp)
Addr == { a \in (mem_start_brk + NBUCKETS * 8) .. (mem_max_addr - 1) : a % WSIZE = 0 }

Min(a, b) == IF a < b THEN a ELSE b

\* ------------------------------------------------------------- conversions
ToUInt32(x) == x % UINT_MOD
ToInt32(x) == LET y == x % UINT_MOD IN IF y >= INT_MAXP1 THEN y - UINT_MOD ELSE y
ToSizeT(x) == x % SIZE_MOD

\* ---------------------------------------------------------------- codec
\* size | alloc, for alloc in {0, 1}, as an unsigned 32-bit word
PACK(size, alloc) ==
  LET s == ToUInt32(size)
  IN  IF alloc = 1 /\ s % 2 = 0 THEN s + 1 ELSE s

GET(m, p) == m[p]
PUT(m, p, val) == [m EXCEPT ![p] = val]
\* GET(p) & 0x7ffffffe: the top bit and the allocated bit are masked off
GET_SIZE(m, p) == (GET(m, p) % INT_MAXP1) - (GET(m, p) % 2)
GET_ALLOC(m, p) == GET(m, p) % 2
FOOTER(m, p) == p + GET_SIZE(m, p) - WSIZE
\* the 8-byte pointer stored at p + WSIZE (little endian: low word first)
NEXT_FREE(m, p) == m[p + WSIZE] + UINT_MOD * m[p + WSIZE + 4]
\* store an 8-byte pointer at address p
PUT_PTR(m, p, ptr) == [m EXCEPT ![p] = ptr % UINT_MOD, ![p + 4] = ptr \div UINT_MOD]

\* ------------------------------------------------------------- state
VARIABLES
  mem,         \* heap words: [Addr -> Nat]
  heap_listp,  \* the nine bucket heads: [0..8 -> pointer]
  prevPtr,     \* global: predecessor saved by the last list scan
  mem_brk,     \* one past the last byte of the heap
  fault,       \* "none", how the process died ("segv", "hang"), or
               \* "overrun": the caller wrote outside its block
  live,        \* caller's view: payload pointer -> size it requested
  last,        \* what the last public operation did (history)
  nops         \* number of operations performed so far

vars == <<mem, heap_listp, prevPtr, mem_brk, fault, live, last, nops>>

\* The allocator's own state, threaded through the helper functions.
Heap == [mem |-> mem, heads |-> heap_listp, prevPtr |-> prevPtr,
         brk |-> mem_brk, fault |-> fault, ccase |-> 0]

PROLOGUE == mem_start_brk + NBUCKETS * 8
FIRST_BLOCK == PROLOGUE + WSIZE

\* -------------------------------------------------------------- mem_sbrk
\* Extends the heap by incr bytes and returns the old break; refuses with
\* (void *)-1 when the heap would pass its limit (or incr is negative).
mem_sbrk(h, incr) ==
  IF incr >= 0 /\ h.brk + incr <= mem_max_addr
  THEN [h |-> [h EXCEPT !.brk = @ + incr], bp |-> h.brk]
  ELSE [h |-> h, bp |-> SbrkFail]

\* -------------------------------------------------------------- mm_init
mm_init ==
  [mem |-> [a \in Addr |-> IF a = PROLOGUE \/ a = PROLOGUE + WSIZE
                           THEN PACK(0, 1) ELSE 0],
   heads |-> [i \in 0..(NBUCKETS - 1) |-> NULL],
   prevPtr |-> NULL,
   brk |-> mem_start_brk + 10 * DSIZE,
   fault |-> "none",
   ccase |-> 0]

\* ----------------------------------------------------------- extend_heap
\* variant: the new epilogue is not written
extend_heap_no_epilogue(h, size) ==
  LET r == mem_sbrk(h, size)
      bp == r.bp
  IN  IF bp = SbrkFail
      THEN [h |-> h, bp |-> bp]
      ELSE LET m1 == PUT(r.h.mem, bp - WSIZE, PACK(size, 1))
               m2 == PUT(m1, bp + size - DSIZE, PACK(size, 1))
           IN  [h |-> [r.h EXCEPT !.mem = m2], bp |-> bp]

\* variant: the new block gets a header but no footer
extend_heap_no_footer(h, size) ==
  LET r == mem_sbrk(h, size)
      bp == r.bp
  IN  IF bp = SbrkFail
      THEN [h |-> h, bp |-> bp]
      ELSE LET m1 == PUT(r.h.mem, bp - WSIZE, PACK(size, 1))
               m3 == PUT(m1, bp + size - WSIZE, PACK(0, 1))
           IN  [h |-> [r.h EXCEPT !.mem = m3], bp |-> bp]

extend_heap(h, size) ==
  LET r == mem_sbrk(h, size)
      bp == r.bp
  IN  IF bp = SbrkFail
      THEN [h |-> h, bp |-> bp]
      ELSE LET m1 == PUT(r.h.mem, bp - WSIZE, PACK(size, 1))
               m2 == PUT(m1, bp + size - DSIZE, PACK(size, 1))
               m3 == PUT(m2, bp + size - WSIZE, PACK(0, 1))
           IN  [h |-> [r.h EXCEPT !.mem = m3], bp |-> bp]

\* -------------------------------------------------------------- getIndex
getIndex(asize) ==
  IF asize <= 32 THEN 0
  ELSE IF asize <= 64 THEN 1
  ELSE IF asize <= 128 THEN 2
  ELSE IF asize <= 256 THEN 3
  ELSE IF asize <= 512 THEN 4
  ELSE IF asize <= 1024 THEN 5
  ELSE IF asize <= 2048 THEN 6
  ELSE IF asize <= 4096 THEN 7
  ELSE 8

\* a block address whose header and next-free reference can be read
Readable(p) == p \in Addr /\ (p + DSIZE) \in Addr

\* ------------------------------------------------------------- first_fit
\* A list scan may take at most as many steps as there are words; a scan
\* that needs more is in a cycle and never returns.
Fuel == Cardinality(Addr)

RECURSIVE scan_class(_, _, _, _, _)
scan_class(m, ptr, prev, asize, fuel) ==
  IF ptr = NULL THEN [bp |-> NULL, prev |-> prev, fault |-> "none"]
  ELSE IF fuel = 0 THEN [bp |-> NULL, prev |-> prev, fault |-> "hang"]
  ELSE IF ~Readable(ptr) THEN [bp |-> NULL, prev |-> prev, fault |-> "segv"]
  ELSE IF GET_SIZE(m, ptr) >= asize THEN [bp |-> ptr, prev |-> prev, fault |-> "none"]
  ELSE scan_class(m, NEXT_FREE(m, ptr), ptr, asize, fuel - 1)

RECURSIVE scan_higher(_, _, _)
scan_higher(heads, index, prev) ==
  IF index > 8 THEN [bp |-> NULL, prev |-> prev, fault |-> "none"]
  ELSE IF heads[index] = NULL THEN scan_higher(heads, index + 1, prev)
  ELSE [bp |-> heads[index], prev |-> NULL, fault |-> "none"]

\* variant: only the natural bucket is searched
first_fit_own_class(h, asize32, index) ==
  LET a == scan_class(h.mem, h.heads[index], NULL, asize32, Fuel)
  IN  [h |-> [h EXCEPT !.prevPtr = a.prev, !.fault = a.fault], bp |-> a.bp]

\* variant: the scan does not keep track of the node before the current one
first_fit_no_pred(h, asize32, index) ==
  LET a == scan_class(h.mem, h.heads[index], NULL, asize32, Fuel)
      r == IF a.bp # NULL \/ a.fault # "none" THEN a
           ELSE scan_higher(h.heads, index + 1, a.prev)
  IN  [h |-> [h EXCEPT !.prevPtr = NULL, !.fault = r.fault], bp |-> r.bp]

\* returns the block found (or NULL) and leaves its predecessor in prevPtr
first_fit(h, asize32, index) ==
  LET a == scan_class(h.mem, h.heads[index], NULL, asize32, Fuel)
      r == IF a.bp # NULL \/ a.fault # "none" THEN a
           ELSE scan_higher(h.heads, index + 1, a.prev)
  IN  [h |-> [h EXCEPT !.prevPtr = r.prev, !.fault = r.fault], bp |-> r.bp]

\* ---------------------------------------------------------------- relink
\* variant: the predecessor is ignored, the bucket head is always rewritten
relink_head_only(h, bp, prev) ==
  LET index == getIndex(GET_SIZE(h.mem, bp))
  IN  [h EXCEPT !.heads[index] = NEXT_FREE(h.mem, bp)]

relink(h, bp, prev) ==
  LET index == getIndex(GET_SIZE(h.mem, bp))
  IN  IF prev = NULL
      THEN [h EXCEPT !.heads[index] = NEXT_FREE(h.mem, bp)]
      ELSE [h EXCEPT !.mem = PUT_PTR(h.mem, prev + WSIZE, NEXT_FREE(h.mem, bp))]

\* ------------------------------------------------------------- find_prev
RECURSIVE find_prev_loop(_, _, _, _, _)
find_prev_loop(m, ptr, prev, p, fuel) ==
  IF ptr = p THEN [prev |-> prev, fault |-> "none"]
  ELSE IF ~Readable(ptr) THEN [prev |-> prev, fault |-> "segv"]
  ELSE IF fuel = 0 THEN [prev |-> prev, fault |-> "hang"]
  ELSE find_prev_loop(m, NEXT_FREE(m, ptr), ptr, p, fuel - 1)

find_prev(h, p) ==
  LET index == getIndex(GET_SIZE(h.mem, p))
      r == find_prev_loop(h.mem, h.heads[index], NULL, p, Fuel)
  IN  [h |-> [h EXCEPT !.prevPtr = r.prev, !.fault = r.fault], prev |-> r.prev]

\* put block b (a free block with its tags written) at the head of its bucket
push_front(h, b) ==
  LET index == getIndex(GET_SIZE(h.mem, b))
      nextFreeBlock == h.heads[index]
  IN  [h EXCEPT !.heads[index] = b,
                !.mem = PUT_PTR(h.mem, b + WSIZE, nextFreeBlock)]

\* variant: the merged block's footer is not written
write_merged_no_footer(h, b, newSize) ==
  [h EXCEPT !.mem = PUT(h.mem, b, PACK(newSize, 0))]

\* write header and footer (size, 0) of the merged block at b
write_merged(h, b, newSize) ==
  LET m1 == PUT(h.mem, b, PACK(newSize, 0))
      m2 == PUT(m1, FOOTER(m1, b), PACK(newSize, 0))
  IN  [h EXCEPT !.mem = m2]

\* -------------------------------------------------------------- coalesce
coalesce_left(h, bp) ==
  LET leftBlock == bp - GET_SIZE(h.mem, bp - WSIZE)
      h1 == relink(h, bp, NULL)
      f == find_prev(h1, leftBlock)
  IN  IF f.h.fault # "none" THEN f.h
      ELSE LET h2 == relink(f.h, leftBlock, f.prev)
               newSize == GET_SIZE(h2.mem, leftBlock) + GET_SIZE(h2.mem, bp)
           IN  push_front(write_merged(h2, leftBlock, newSize), leftBlock)

\* variant: the released block is not unlinked before the merged block is
\* put at the head of its bucket
coalesce_right_no_unlink(h, bp) ==
  LET rightBlock == bp + GET_SIZE(h.mem, bp)
      f == find_prev(h, rightBlock)
  IN  IF f.h.fault # "none" THEN f.h
      ELSE LET h2 == relink(f.h, rightBlock, f.prev)
               newSize == GET_SIZE(h2.mem, rightBlock) + GET_SIZE(h2.mem, bp)
           IN  push_front(write_merged(h2, bp, newSize), bp)

coalesce_right(h, bp) ==
  LET rightBlock == bp + GET_SIZE(h.mem, bp)
      h1 == relink(h, bp, NULL)
      f == find_prev(h1, rightBlock)
  IN  IF f.h.fault # "none" THEN f.h
      ELSE LET h2 == relink(f.h, rightBlock, f.prev)
               newSize == GET_SIZE(h2.mem, rightBlock) + GET_SIZE(h2.mem, bp)
           IN  push_front(write_merged(h2, bp, newSize), bp)

\* variant: with both neighbours free, only the left one is merged
coalesce_both_forgets_right(h, bp) == coalesce_left(h, bp)

coalesce_both(h, bp) ==
  LET rightBlock == bp + GET_SIZE(h.mem, bp)
      leftBlock == bp - GET_SIZE(h.mem, bp - WSIZE)
      h1 == relink(h, bp, NULL)
      f == find_prev(h1, rightBlock)
  IN  IF f.h.fault # "none" THEN f.h
      ELSE LET h2 == relink(f.h, rightBlock, f.prev)
               g == find_prev(h2, leftBlock)
           IN  IF g.h.fault # "none" THEN g.h
               ELSE LET h3 == relink(g.h, leftBlock, g.prev)
                        newSize == GET_SIZE(h3.mem, rightBlock)
                                   + GET_SIZE(h3.mem, bp)
                                   + GET_SIZE(h3.mem, leftBlock)
                    IN  push_front(write_merged(h3, leftBlock, newSize), leftBlock)

\* variant: neighbours are never merged
coalesce_never(h, bp) == [h EXCEPT !.ccase = 1]

coalesce(h, bp) ==
  LET leftAlloc == GET_ALLOC(h.mem, bp - WSIZE)
      rightAlloc == GET_ALLOC(h.mem, bp + GET_SIZE(h.mem, bp))
  IN  IF leftAlloc = 1 /\ rightAlloc = 1 THEN [h EXCEPT !.ccase = 1]
      ELSE IF leftAlloc = 0 /\ rightAlloc = 1
        THEN coalesce_left([h EXCEPT !.ccase = 2], bp)
      ELSE IF leftAlloc = 1 /\ rightAlloc = 0
        THEN coalesce_right([h EXCEPT !.ccase = 3], bp)
      ELSE coalesce_both([h EXCEPT !.ccase = 4], bp)

\* ------------------------------------------------------------------ free
mm_free(h, ptr0) ==
  IF ptr0 = NULL THEN h
  ELSE LET ptr == ptr0 - WSIZE
           m1 == PUT(h.mem, ptr, PACK(GET_SIZE(h.mem, ptr), 0))
           m2 == PUT(m1, FOOTER(m1, ptr), PACK(GET_SIZE(m1, ptr), 0))
           size == ToInt32(GET_SIZE(m2, ptr))
           nextFreeBlock == h.heads[getIndex(size)]
           m3 == PUT_PTR(m2, ptr + WSIZE, nextFreeBlock)
           h1 == [h EXCEPT !.mem = m3, !.heads[getIndex(size)] = ptr]
       IN  coalesce(h1, ptr)

\* ----------------------------------------------------------------- place
\* variant: a block placed whole stays in its bucket
place_keeps_listed(h, asize32, bp, prev) ==
  LET csize == ToInt32(GET_SIZE(h.mem, bp))
      diff == ToInt32(csize - asize32)
  IN  IF diff > 2 * DSIZE
      THEN LET h1 == relink(h, bp, prev)
               m1 == PUT(h1.mem, bp, PACK(asize32, 1))
               m2 == PUT(m1, FOOTER(m1, bp), PACK(asize32, 1))
               newbp == bp + asize32
               m3 == PUT(m2, newbp, PACK(diff, 0))
               m4 == PUT(m3, FOOTER(m3, newbp), PACK(diff, 0))
           IN  [h |-> mm_free([h1 EXCEPT !.mem = m4], newbp + WSIZE),
                bp |-> bp + WSIZE, split |-> TRUE]
      ELSE LET m1 == PUT(h.mem, bp, PACK(csize, 1))
               m2 == PUT(m1, FOOTER(m1, bp), PACK(csize, 1))
           IN  [h |-> [h EXCEPT !.mem = m2], bp |-> bp + WSIZE, split |-> FALSE]

\* variant: any leftover at all is split off
place_split_any(h, asize32, bp, prev) ==
  LET csize == ToInt32(GET_SIZE(h.mem, bp))
      diff == ToInt32(csize - asize32)
  IN  IF diff > 0
      THEN LET h1 == relink(h, bp, prev)
               m1 == PUT(h1.mem, bp, PACK(asize32, 1))
               m2 == PUT(m1, FOOTER(m1, bp), PACK(asize32, 1))
               newbp == bp + asize32
               m3 == PUT(m2, newbp, PACK(diff, 0))
               m4 == PUT(m3, FOOTER(m3, newbp), PACK(diff, 0))
           IN  [h |-> mm_free([h1 EXCEPT !.mem = m4], newbp + WSIZE),
                bp |-> bp + WSIZE, split |-> TRUE]
      ELSE LET m1 == PUT(h.mem, bp, PACK(csize, 1))
               m2 == PUT(m1, FOOTER(m1, bp), PACK(csize, 1))
           IN  [h |-> relink([h EXCEPT !.mem = m2], bp, prev),
                bp |-> bp + WSIZE, split |-> FALSE]

\* variant: when splitting, the block is unlinked after its header has been
\* rewritten with the required size
place_relinks_late(h, asize32, bp, prev) ==
  LET csize == ToInt32(GET_SIZE(h.mem, bp))
      diff == ToInt32(csize - asize32)
  IN  IF diff > 2 * DSIZE
      THEN LET m1 == PUT(h.mem, bp, PACK(asize32, 1))
               m2 == PUT(m1, FOOTER(m1, bp), PACK(asize32, 1))
               h1 == relink([h EXCEPT !.mem = m2], bp, prev)
               newbp == bp + asize32
               m3 == PUT(h1.mem, newbp, PACK(diff, 0))
               m4 == PUT(m3, FOOTER(m3, newbp), PACK(diff, 0))
           IN  [h |-> mm_free([h1 EXCEPT !.mem = m4], newbp + WSIZE),
                bp |-> bp + WSIZE, split |-> TRUE]
      ELSE LET m1 == PUT(h.mem, bp, PACK(csize, 1))
               m2 == PUT(m1, FOOTER(m1, bp), PACK(csize, 1))
           IN  [h |-> relink([h EXCEPT !.mem = m2], bp, prev),
                bp |-> bp + WSIZE, split |-> FALSE]

place(h, asize32, bp, prev) ==
  LET csize == ToInt32(GET_SIZE(h.mem, bp))
      diff == ToInt32(csize - asize32)
  IN  IF diff > 2 * DSIZE
      THEN LET h1 == relink(h, bp, prev)
               m1 == PUT(h1.mem, bp, PACK(asize32, 1))
               m2 == PUT(m1, FOOTER(m1, bp), PACK(asize32, 1))
               newbp == bp + asize32
               m3 == PUT(m2, newbp, PACK(diff, 0))
               m4 == PUT(m3, FOOTER(m3, newbp), PACK(diff, 0))
           IN  [h |-> mm_free([h1 EXCEPT !.mem = m4], newbp + WSIZE),
                bp |-> bp + WSIZE, split |-> TRUE]
      ELSE LET m1 == PUT(h.mem, bp, PACK(csize, 1))
               m2 == PUT(m1, FOOTER(m1, bp), PACK(csize, 1))
           IN  [h |-> relink([h EXCEPT !.mem = m2], bp, prev),
                bp |-> bp + WSIZE, split |-> FALSE]

\* ---------------------------------------------------------------- malloc
\* variant: the required size is rounded up to a multiple of 4
required_word_rounded(size) ==
  LET s == ToSizeT(size + 8)
  IN  IF s % 4 = 0 THEN s ELSE ToSizeT(((s \div 4) + 1) * 4)

\* the required size: size + 8, rounded up to a multiple of 8 (size_t)
required(size) ==
  LET s == ToSizeT(size + 8)
  IN  IF s % 8 = 0 THEN s ELSE ToSizeT(((s \div 8) + 1) * 8)

\* what malloc hands back: the heap, the result, and how it was obtained
MallocResult(h, bp, growfail, placed, split) ==
  [h |-> h, bp |-> bp, growfail |-> growfail, placed |-> placed, split |-> split,
   fit |-> NULL, fitprev |-> NULL]

\* r, with the block first_fit returned and the predecessor it left in prevPtr
Searched(r, f) == [r EXCEPT !.fit = f.bp, !.fitprev = f.h.prevPtr]

\* mm.c:262-263: the result of extend_heap is returned as it is
malloc_grown(e) == MallocResult(e.h, e.bp, e.bp = SbrkFail, FALSE, FALSE)

\* mm.c:266
malloc_placed(p) == MallocResult(p.h, p.bp, FALSE, TRUE, p.split)

\* variant: the heap grows by at least three double words
malloc_found_chunked(f, asize) ==
  IF f.h.fault # "none" THEN MallocResult(f.h, NULL, FALSE, FALSE, FALSE)
  ELSE IF f.bp = NULL
  THEN malloc_grown(extend_heap(f.h, IF ToInt32(asize) < 3 * DSIZE
                                     THEN 3 * DSIZE ELSE ToInt32(asize)))
  ELSE Searched(malloc_placed(place(f.h, ToUInt32(asize), f.bp, f.h.prevPtr)), f)

\* mm.c:261-267: f is what first_fit returned
malloc_found(f, asize) ==
  IF f.h.fault # "none" THEN MallocResult(f.h, NULL, FALSE, FALSE, FALSE)
  ELSE IF f.bp = NULL THEN malloc_grown(extend_heap(f.h, ToInt32(asize)))
  ELSE Searched(malloc_placed(place(f.h, ToUInt32(asize), f.bp, f.h.prevPtr)), f)

\* mm.c:259-260
malloc_search(h, asize) ==
  malloc_found(first_fit(h, ToUInt32(asize), getIndex(asize)), asize)

\* variant: a zero size is served like any other
mm_malloc_no_zero_test(h, size0) == malloc_search(h, required(size0))

mm_malloc(h, size0) ==
  IF size0 = 0 THEN MallocResult(h, NULL, FALSE, FALSE, FALSE)
  ELSE malloc_search(h, required(size0))

\* ---------------------------------------------------------------- memcpy
\* copies n bytes (whole words) from src to dst; a word outside the heap
\* cannot be touched without a fault
memcpy_ok(h, dst, src, n) ==
  \A k \in 0..((n \div WSIZE) - 1) :
     /\ (dst + WSIZE * k) \in Addr /\ dst + WSIZE * k < h.brk
     /\ (src + WSIZE * k) \in Addr /\ src + WSIZE * k < h.brk

memcpy(h, dst, src, n) ==
  IF ~memcpy_ok(h, dst, src, n) THEN [h EXCEPT !.fault = "segv"]
  ELSE [h EXCEPT !.mem =
          [a \in Addr |->
             IF a >= dst /\ a < dst + n THEN h.mem[src + (a - dst)] ELSE h.mem[a]]]

\* --------------------------------------------------------------- realloc
\* what realloc hands back: the heap, the result, the bytes copied, whether
\* the old block was freed, and what its malloc did
ReallocResult(h, ret, copied, freed, m) ==
  [h |-> h, ret |-> ret, copied |-> copied, freed |-> freed, m |-> m]

\* mm.c:377-379: the number of bytes to copy
copy_length(h, oldptr, size) ==
  LET oldsize == ToUInt32(GET_SIZE(h.mem, oldptr - WSIZE))
  IN  IF oldsize > size THEN ToUInt32(size) ELSE oldsize

\* mm.c:383-384: c is the heap after memcpy
realloc_release(c, r, oldptr, n) ==
  IF c.fault # "none" THEN ReallocResult(c, NULL, 0, FALSE, r)
  ELSE ReallocResult(mm_free(c, oldptr), r.bp, n, TRUE, r)

\* mm.c:375-381: r is what malloc returned
realloc_move(r, oldptr, size) ==
  IF r.bp = NULL \/ r.h.fault # "none" THEN ReallocResult(r.h, NULL, 0, FALSE, r)
  ELSE realloc_release(memcpy(r.h, r.bp, oldptr, copy_length(r.h, oldptr, size)),
                       r, oldptr, copy_length(r.h, oldptr, size))

\* mm.c:366-367
realloc_null(r) == ReallocResult(r.h, r.bp, 0, FALSE, r)

\* variant: a zero size is not treated as a release
mm_realloc_no_zero_case(h, oldptr, size) ==
  IF oldptr = NULL THEN realloc_null(mm_malloc(h, size))
  ELSE realloc_move(mm_malloc(h, size), oldptr, size)

mm_realloc(h, oldptr, size) ==
  IF oldptr = NULL THEN realloc_null(mm_malloc(h, size))
  ELSE IF size = 0
  THEN ReallocResult(mm_free(h, oldptr), NULL, 0, TRUE,
                     MallocResult(h, NULL, FALSE, FALSE, FALSE))
  ELSE realloc_move(mm_malloc(h, size), oldptr, size)

\* ---------------------------------------------------------- mm_checkheap
\* bounds of the heap as the growth primitive reports them
mem_heap_lo == mem_start_brk
mem_heap_hi(h) == h.brk - 1
in_heap(h, p) == p <= mem_heap_hi(h) /\ p >= mem_heap_lo
\* ALIGN(p) = p
aligned(p) == ((p + (ALIGNMENT - 1)) \div 8) * 8 = p

checkBucketSize(m, c, index) ==
  IF index = 0 THEN (IF GET_SIZE(m, c) > 32 THEN 0 ELSE 1)
  ELSE IF index = 1 THEN (IF GET_SIZE(m, c) > 64 THEN 0 ELSE 1)
  ELSE IF index = 2 THEN (IF GET_SIZE(m, c) > 128 THEN 0 ELSE 1)
  ELSE IF index = 3 THEN (IF GET_SIZE(m, c) > 256 THEN 0 ELSE 1)
  ELSE IF index = 4 THEN (IF GET_SIZE(m, c) > 512 THEN 0 ELSE 1)
  ELSE IF index = 5 THEN (IF GET_SIZE(m, c) > 1024 THEN 0 ELSE 1)
  ELSE IF index = 6 THEN (IF GET_SIZE(m, c) > 2048 THEN 0 ELSE 1)
  ELSE IF index = 7 THEN (IF GET_SIZE(m, c) > 4096 THEN 0 ELSE 1)
  ELSE (IF GET_SIZE(m, c) <= 4096 THEN 0 ELSE 1)

\* What mm_checkheap prints: a set of lines, each with the address of the
\* block it was looking at, and how the run ended.
Report(out, flt) == [out |-> out, fault |-> flt]
Line(msg, a) == <<msg, a>>

\* mm.c:471-474 and 495-498: both pairs of tests read the prologue word
check_sentinel(m, msg) ==
  (IF GET_ALLOC(m, PROLOGUE) # 1 THEN {Line(msg, PROLOGUE)} ELSE {})
  \cup (IF GET_SIZE(m, PROLOGUE) # 0 THEN {Line(msg, PROLOGUE)} ELSE {})

\* mm.c:478-484: is begin reachable in the list that starts at ptr?
RECURSIVE check_find(_, _, _, _)
check_find(m, ptr, begin, fuel) ==
  IF ptr = NULL THEN "missing"
  ELSE IF ptr = begin THEN "found"
  ELSE IF ~Readable(ptr) THEN "segv"
  ELSE IF fuel = 0 THEN "hang"
  ELSE check_find(m, NEXT_FREE(m, ptr), begin, fuel - 1)

\* mm.c:476-493: the walk over the blocks; it goes on while the block at
\* begin is free and the prologue's size is not 0
RECURSIVE check_blocks(_, _, _)
check_blocks(h, begin, fuel) ==
  IF ~(GET_ALLOC(h.mem, begin) # 1 /\ GET_SIZE(h.mem, PROLOGUE) # 0)
  THEN Report({}, "none")
  ELSE IF fuel = 0 THEN Report({}, "hang")
  ELSE LET f == check_find(h.mem, h.heads[getIndex(GET_SIZE(h.mem, begin))],
                           begin, Fuel)
           nxt == begin + GET_SIZE(h.mem, begin)
       IN  IF f \in {"segv", "hang"} THEN Report({}, f)
           ELSE IF nxt \notin Addr THEN Report({}, "segv")
           ELSE LET here ==
                      (IF f = "missing"
                       THEN {Line("did not find bucket", begin)} ELSE {})
                      \cup (IF GET_ALLOC(h.mem, begin) # GET_ALLOC(h.mem, nxt)
                            THEN {Line("block is wrong", begin)} ELSE {})
                    rest == check_blocks(h, nxt, fuel - 1)
                IN  Report(here \cup rest.out, rest.fault)

\* mm.c:502-512: the tests on one bucket's list
RECURSIVE check_list(_, _, _, _)
check_list(h, ptr, index, fuel) ==
  IF ptr = NULL THEN Report({}, "none")
  ELSE IF ~Readable(ptr) THEN Report({}, "segv")
  ELSE IF fuel = 0 THEN Report({}, "hang")
  ELSE LET here ==
             (IF ~in_heap(h, ptr)
              THEN {Line("free pointer is out of bound", ptr)} ELSE {})
             \cup (IF ~aligned(ptr + WSIZE)
                   THEN {Line("not aligned", ptr)} ELSE {})
             \cup (IF GET_ALLOC(h.mem, ptr) = 1
                   THEN {Line("not free block", ptr)} ELSE {})
             \cup (IF checkBucketSize(h.mem, ptr, index) = 0
                   THEN {Line("wrong bucket size", ptr)} ELSE {})
           rest == check_list(h, NEXT_FREE(h.mem, ptr), index, fuel - 1)
       IN  Report(here \cup rest.out, rest.fault)

\* mm.c:500-514
RECURSIVE check_buckets(_, _)
check_buckets(h, index) ==
  IF index > 8 THEN Report({}, "none")
  ELSE LET l == check_list(h, h.heads[index], index, Fuel)
       IN  IF l.fault # "none" THEN l
           ELSE LET rest == check_buckets(h, index + 1)
                IN  Report(l.out \cup rest.out, rest.fault)

mm_checkheap(h) ==
  LET pro == check_sentinel(h.mem, "invalid prologue header")
      blk == check_blocks(h, FIRST_BLOCK, Fuel)
      epi == check_sentinel(h.mem, "invalid epilogue")
  IN  IF blk.fault # "none" THEN Report(pro \cup blk.out, blk.fault)
      ELSE LET bkt == check_buckets(h, 0)
           IN  Report(pro \cup blk.out \cup epi \cup bkt.out, bkt.fault)

\* ------------------------------------------------------------- history
\* What the last public operation was and did: its arguments, its result,
\* whether the arena grew / growth was refused, whether a free block was
\* placed (and split), the coalescing case of its last free, the bytes the
\* resizer copied, the size of the block it was given, the block its search
\* returned with the predecessor it reported (fit, fitprev), what the heap
\* checker printed (diag), and the round trip
\* it completes (rt: the size n of a malloc(n) whose result this free
\* released at once; after_rt: the coalescing case of such a free when
\* this operation is the malloc(n) that follows it).
NoOp == [op |-> "init", ptr |-> NULL, size |-> 0, ret |-> NULL,
         grew |-> FALSE, growfail |-> FALSE, placed |-> FALSE,
         split |-> FALSE, ccase |-> 0, copied |-> 0, oldsize |-> 0,
         rt |-> 0, after_rt |-> 0, diag |-> {}, fit |-> NULL, fitprev |-> NULL]

\* ------------------------------------------------------------- actions
Install(h) ==
  /\ nops < MaxOps
  /\ nops' = nops + 1
  /\ mem' = h.mem
  /\ heap_listp' = h.heads
  /\ prevPtr' = h.prevPtr
  /\ mem_brk' = h.brk
  /\ fault' = h.fault

Init ==
  /\ mem = mm_init.mem
  /\ heap_listp = mm_init.heads
  /\ prevPtr = mm_init.prevPtr
  /\ mem_brk = mm_init.brk
  /\ fault = mm_init.fault
  /\ live = <<>>
  /\ last = NoOp
  /\ nops = 0

\* the caller's record of what it holds
Holds(p) == p \in DOMAIN live
Give(l, p, n) == [q \in (DOMAIN l) \cup {p} |-> IF q = p THEN n ELSE l[q]]
Take(l, p) == [q \in (DOMAIN l) \ {p} |-> l[q]]
\* a result the caller can use: neither NULL nor the refusal value
IsBlockPtr(p) == p # NULL /\ p # SbrkFail

\* p = malloc(n); r is what the call returns
MallocReturns(n, r) ==
  /\ Install(r.h)
  /\ live' = IF IsBlockPtr(r.bp) /\ r.h.fault = "none"
             THEN Give(live, r.bp, n) ELSE live
  /\ last' = [NoOp EXCEPT !.op = "malloc", !.size = n, !.ret = r.bp,
                !.grew = (r.h.brk # mem_brk), !.growfail = r.growfail,
                !.placed = r.placed, !.split = r.split,
                !.ccase = r.h.ccase,
                !.fit = r.fit, !.fitprev = r.fitprev,
                !.after_rt = IF last.op = "free" /\ n > 0 /\ last.rt = n
                             THEN last.ccase ELSE 0]

Malloc(n) ==
  /\ fault = "none"
  /\ MallocReturns(n, mm_malloc(Heap, n))

\* the size in the header of the block the caller passes (0 for NULL)
SizeAt(p) == IF p = NULL THEN 0 ELSE GET_SIZE(mem, p - WSIZE)

\* free(p), p a pointer the caller holds, or NULL
FreeReturns(p, h) ==
  /\ Install(h)
  /\ live' = Take(live, p)
  /\ last' = [NoOp EXCEPT !.op = "free", !.ptr = p, !.ccase = h.ccase,
                !.oldsize = SizeAt(p),
                !.rt = IF last.op = "malloc" /\ last.ret = p
                       THEN last.size ELSE 0]

Free(p) ==
  /\ fault = "none"
  /\ Holds(p) \/ p = NULL
  /\ FreeReturns(p, mm_free(Heap, p))

\* q = realloc(p, n), p a pointer the caller holds, or NULL
ReallocReturns(p, n, r) ==
  /\ Install(r.h)
  /\ live' = LET l1 == IF r.freed THEN Take(live, p) ELSE live
             IN  IF IsBlockPtr(r.ret) /\ r.h.fault = "none"
                 THEN Give(l1, r.ret, n) ELSE l1
  /\ last' = [NoOp EXCEPT !.op = "realloc", !.ptr = p, !.size = n,
                !.ret = r.ret, !.grew = (r.h.brk # mem_brk),
                !.growfail = r.m.growfail, !.placed = r.m.placed,
                !.split = r.m.split, !.ccase = r.h.ccase,
                !.fit = r.m.fit, !.fitprev = r.m.fitprev,
                !.copied = r.copied,
                !.oldsize = SizeAt(p)]

Realloc(p, n) ==
  /\ fault = "none"
  /\ Holds(p) \/ p = NULL
  /\ ReallocReturns(p, n, mm_realloc(Heap, p, n))

\* the caller fills the bytes it requested at p with its own data
Pattern(a) == (INT_MAXP1 \div 2) + a

Store(p) ==
  /\ fault = "none"
  /\ Holds(p)
  /\ nops < MaxOps
  /\ nops' = nops + 1
  /\ mem' = [a \in Addr |-> IF a >= p /\ a < p + live[p] THEN Pattern(a) ELSE mem[a]]
  /\ mem' # mem
  /\ last' = [NoOp EXCEPT !.op = "store", !.ptr = p]
  /\ UNCHANGED <<heap_listp, prevPtr, mem_brk, fault, live>>

\* what the caller may pass: a size it wants or 0, a pointer it holds or NULL
Sizes == Requests \cup {0}
Pointers == (DOMAIN live) \cup {NULL}

Next ==
  \/ \E n \in Sizes : Malloc(n)
  \/ \E p \in Pointers : Free(p)
  \/ \E p \in Pointers, n \in Sizes : Realloc(p, n)
  \/ \E p \in DOMAIN live : Store(p)

Spec == Init /\ [][Next]_vars

\* ------------------------------------------- the heap checker and its caller
\* The caller writes one word past the end of a block it holds: the header
\* of the next block, whose allocated bit it clears.  The caller does not
\* use the allocator after that, other than to check the heap.
Overrun(p) ==
  /\ fault = "none"
  /\ Holds(p)
  /\ nops < MaxOps
  /\ LET nb == (p - WSIZE) + GET_SIZE(mem, p - WSIZE)
     IN  /\ nb < mem_brk - WSIZE
         /\ GET_ALLOC(mem, nb) = 1
         /\ mem' = PUT(mem, nb, PACK(GET_SIZE(mem, nb), 0))
  /\ nops' = nops + 1
  /\ fault' = "overrun"
  /\ last' = [NoOp EXCEPT !.op = "overrun", !.ptr = p]
  /\ UNCHANGED <<heap_listp, prevPtr, mem_brk, live>>

\* mm_checkheap(0): r is what it printed
CheckHeapReturns(r) ==
  /\ nops < MaxOps
  /\ nops' = nops + 1
  /\ fault' = IF r.fault # "none" THEN r.fault ELSE fault
  /\ last' = [NoOp EXCEPT !.op = "checkheap", !.diag = r.out]
  /\ UNCHANGED <<mem, heap_listp, prevPtr, mem_brk, live>>

CheckHeap ==
  /\ fault \in {"none", "overrun"}
  /\ CheckHeapReturns(mm_checkheap(Heap))

NextCheck ==
  \/ Next
  \/ \E p \in DOMAIN live : Overrun(p)
  \/ CheckHeap

SpecCheck == Init /\ [][NextCheck]_vars

\* ----------------------------------- requests beyond the unsigned int range
\* request sizes that need more than an unsigned int: 2^32 + 4 and 2^32 + 12
\* in the program's widths
WideRequests == {UINT_MOD + 4, UINT_MOD + 12}

NextWide ==
  \/ \E n \in Requests \cup WideRequests : Malloc(n)
  \/ \E p \in DOMAIN live : Free(p)

SpecWide == Init /\ [][NextWide]_vars

\* ------------------------------------------------------ views of the heap
EPILOGUE == mem_brk - WSIZE
\* the smallest block that holds header, next-free reference and footer
MINBLOCK == 2 * DSIZE

\* headers met walking the arena from p, stepping by each block's size
RECURSIVE Walk(_, _)
Walk(p, fuel) ==
  IF fuel = 0 \/ p \notin Addr \/ p >= EPILOGUE \/ GET_SIZE(mem, p) = 0
  THEN <<>>
  ELSE <<p>> \o Walk(p + GET_SIZE(mem, p), fuel - 1)

ArenaBlocks == Walk(FIRST_BLOCK, Fuel)
\* where the walk stops
WalkEnd ==
  IF ArenaBlocks = <<>> THEN FIRST_BLOCK
  ELSE LET b == ArenaBlocks[Len(ArenaBlocks)] IN b + GET_SIZE(mem, b)
Tiles == WalkEnd = EPILOGUE

\* the addresses reached from a bucket head by next-free references
RECURSIVE ListFrom(_, _)
ListFrom(p, fuel) ==
  IF p = NULL \/ fuel = 0 \/ ~Readable(p) THEN <<>>
  ELSE <<p>> \o ListFrom(NEXT_FREE(mem, p), fuel - 1)

Bucket(i) == ListFrom(heap_listp[i], Fuel)
BucketSet(i) == { Bucket(i)[k] : k \in 1..Len(Bucket(i)) }
Listed == UNION { BucketSet(i) : i \in 0..(NBUCKETS - 1) }
\* how often address b occurs in bucket i
Occurs(b, i) == Cardinality({ k \in 1..Len(Bucket(i)) : Bucket(i)[k] = b })
BlockSet == { ArenaBlocks[k] : k \in 1..Len(ArenaBlocks) }
IsFree(b) == GET_ALLOC(mem, b) = 0
Disjoint(b1, s1, b2, s2) == b1 + s1 <= b2 \/ b2 + s2 <= b1

\* the block of the arena that contains address a
BlockOf(a) ==
  CHOOSE b \in BlockSet \cup {NULL} :
    \/ b # NULL /\ b <= a /\ a < b + GET_SIZE(mem, b)
    \/ b = NULL /\ \A c \in BlockSet : ~(c <= a /\ a < c + GET_SIZE(mem, c))
\* the step leaves the allocator in the state an internal call left in h
StateBecomes(h) ==
  /\ mem' = h.mem
  /\ heap_listp' = h.heads
  /\ prevPtr' = h.prevPtr
  /\ mem_brk' = h.brk
  /\ fault' = h.fault

\* ------------------------------------------------------------- properties

\* C1: no block is both caller-owned and free-list-owned.  Every pointer the
\* caller holds (returned by an allocation, not yet released) denotes a block
\* of the arena whose header is marked allocated, that is in no bucket list,
\* that lies between prologue and epilogue, and whose byte range is disjoint
\* from the range of every other live block and of every free block (found
\* by the arena walk or reachable from a bucket head).  The bytes the caller
\* asked for end before the block's last word.
OwnershipExclusive ==
  \A p \in DOMAIN live :
    LET b == p - WSIZE
        s == GET_SIZE(mem, b)
    IN  /\ b \in BlockSet
        /\ GET_ALLOC(mem, b) = 1
        /\ b \notin Listed
        /\ b > PROLOGUE /\ b + s <= EPILOGUE
        /\ p + live[p] <= b + s - WSIZE
        /\ \A q \in (DOMAIN live) \ {p} :
             Disjoint(b, s, q - WSIZE, GET_SIZE(mem, q - WSIZE))
        /\ \A f \in { x \in BlockSet : IsFree(x) } \cup Listed :
             Disjoint(b, s, f, GET_SIZE(mem, f))

\* C1 witness: the caller holds a block taken from a free list next to a
\* free remainder, and another block besides.
OwnershipWitness ==
  /\ last.op = "malloc" /\ last.split
  /\ Cardinality(DOMAIN live) >= 2
  /\ Listed # {}

\* C3: walking the arena from the first block to the epilogue never finds
\* two consecutive blocks that are both marked free.
NoAdjacentFree ==
  \A k \in 1..(Len(ArenaBlocks) - 1) :
    ~(IsFree(ArenaBlocks[k]) /\ IsFree(ArenaBlocks[k + 1]))

\* C3 witness: a free with both neighbours free has just merged three blocks.
NoAdjacentFreeWitness ==
  /\ last.op = "free" /\ last.ccase = 4
  /\ \E b \in BlockSet : IsFree(b)

\* C4: a block of the arena is marked free iff it is reachable from exactly
\* one bucket head and exactly once, that bucket is the one getIndex gives
\* for its size, and nothing else (an allocated block, a sentinel, a stale
\* address) is reachable from any bucket head.
BucketMembership ==
  /\ \A b \in BlockSet :
       LET total == Cardinality({ i \in 0..(NBUCKETS - 1) : b \in BucketSet(i) })
       IN  IF IsFree(b)
           THEN /\ total = 1
                /\ Occurs(b, getIndex(GET_SIZE(mem, b))) = 1
           ELSE total = 0
  /\ \A f \in Listed : f \in BlockSet /\ IsFree(f)
  /\ \A i \in 0..(NBUCKETS - 1) : Len(Bucket(i)) = Cardinality(BucketSet(i))

\* C4 witness: a merge has just reinserted a block, and a bucket holds two
\* blocks.
BucketMembershipWitness ==
  /\ last.op = "free" /\ last.ccase \in {2, 3, 4}
  /\ \E i \in 0..(NBUCKETS - 1) : Len(Bucket(i)) >= 2

\* C5: the footer word of every free block (at header + size - 4) is
\* bit-identical to its header word, with allocation bit 0.
FreeTagsMatch ==
  \A b \in BlockSet :
    IsFree(b) => /\ mem[FOOTER(mem, b)] = mem[b]
                 /\ mem[b] % 2 = 0

\* C5 witness: a free block written by a merge with the left neighbour.
FreeTagsWitness ==
  /\ last.op = "free" /\ last.ccase = 2
  /\ \E b \in BlockSet : IsFree(b) /\ GET_SIZE(mem, b) > last.oldsize

\* C9: every block between prologue and epilogue has a size that is a
\* positive multiple of 8 and at least the minimum block size, and the
\* blocks found this way are all the blocks (the walk ends on the epilogue).
BlockSizesValid ==
  /\ Tiles
  /\ \A b \in BlockSet :
       /\ GET_SIZE(mem, b) % ALIGNMENT = 0
       /\ GET_SIZE(mem, b) >= MINBLOCK

\* C9 witness: a split has just produced an allocated head and a free
\* remainder.
BlockSizesWitness ==
  /\ last.op \in {"malloc", "realloc"} /\ last.split
  /\ IsBlockPtr(last.ret)
  /\ \E b \in BlockSet :
       IsFree(b) /\ b = (last.ret - WSIZE) + GET_SIZE(mem, last.ret - WSIZE)

\* C10: prologue and epilogue words encode size 0 with the allocated bit
\* set, neither is reachable from a bucket, and stepping from the first block
\* by each block's size lands exactly on the epilogue.
SentinelsIntact ==
  /\ mem[PROLOGUE] = PACK(0, 1)
  /\ mem[EPILOGUE] = PACK(0, 1)
  /\ PROLOGUE \notin Listed
  /\ EPILOGUE \notin Listed
  /\ Tiles

\* C10 witness: the arena has grown and blocks have been freed and merged.
SentinelsWitness ==
  /\ mem_brk > FIRST_BLOCK + WSIZE + 2 * MINBLOCK
  /\ last.op = "free" /\ last.ccase = 3

\* C6: given an 8-byte aligned first region, every pointer returned by a
\* successful allocation (by growth, whole-block placement or split) is a
\* multiple of 8; equivalently every block header is at 4 mod 8.
PayloadAligned ==
  (mem_start_brk % ALIGNMENT = 0) =>
    /\ (last.op \in {"malloc", "realloc"} /\ IsBlockPtr(last.ret))
         => last.ret % ALIGNMENT = 0
    /\ \A p \in DOMAIN live : p % ALIGNMENT = 0
    /\ \A b \in BlockSet : b % ALIGNMENT = WSIZE

\* C6 witness: an allocation served by placing a whole free block that is
\* larger than required.
PayloadAlignedWitness ==
  /\ last.op = "malloc" /\ last.placed /\ ~last.split
  /\ IsBlockPtr(last.ret)
  /\ GET_SIZE(mem, last.ret - WSIZE) > required(last.size)

\* C8: a malloc(n) that directly follows malloc(n) = p; free(p) is served
\* from a free list and leaves the arena's high bound where it was, whatever
\* coalescing case the free went through.
RoundTripReuse ==
  (last.op = "malloc" /\ last.after_rt # 0) =>
    /\ last.placed
    /\ ~last.grew
    /\ ~last.growfail
    /\ IsBlockPtr(last.ret)

\* C8 witness: the freed block was merged with its left neighbour into a
\* higher bucket than the request's own, and the next malloc(n) took it.
RoundTripWitness ==
  /\ last.op = "malloc" /\ last.after_rt = 2
  /\ IsBlockPtr(last.ret)
  /\ getIndex(GET_SIZE(mem, last.ret - WSIZE)) > getIndex(required(last.size))

\* C2 (as claimed): when growth is refused, malloc returns NULL and realloc
\* returns NULL without copying, freeing or crashing, and bucket heads, block
\* tags and arena bounds are unchanged.
GrowthFailureIsNull ==
  [][ last'.growfail =>
        /\ last'.ret = NULL
        /\ fault' = "none"
        /\ last'.copied = 0
        /\ live' = live
        /\ heap_listp' = heap_listp
        /\ mem' = mem
        /\ mem_brk' = mem_brk ]_vars

ReallocEquivalences ==
  [][ \A p \in Pointers, n \in Sizes :
        (last'.op = "realloc" /\ last'.ptr = p /\ last'.size = n) =>
          /\ (p = NULL) =>
               /\ last'.ret = mm_malloc(Heap, n).bp
               /\ StateBecomes(mm_malloc(Heap, n).h)
          /\ (p # NULL /\ n = 0) =>
               /\ last'.ret = NULL
               /\ StateBecomes(mm_free(Heap, p))
          /\ (p # NULL /\ n > 0 /\ IsBlockPtr(last'.ret) /\ fault' = "none") =>
               /\ last'.ret # p
               /\ BlockOf(p - WSIZE)' # NULL
               /\ IsFree(BlockOf(p - WSIZE))' ]_vars

\* C11 witness: realloc(p, 0) has just released a block that merged with a
\* free neighbour.
ReallocEquivalencesWitness ==
  /\ last.op = "realloc" /\ last.ptr # NULL /\ last.size = 0
  /\ last.ccase \in {2, 3, 4}

\* C12: malloc(0) returns NULL, free(NULL) returns, and neither changes
\* the allocator: the nine bucket heads, every heap word (block tags and
\* next-free references) and the arena bounds stay as they were, and the
\* growth primitive is not called.
NullRequestsNoEffect ==
  [][ (\/ last'.op = "malloc" /\ last'.size = 0
       \/ last'.op = "free" /\ last'.ptr = NULL) =>
        /\ last'.ret = NULL
        /\ fault' = "none"
        /\ heap_listp' = heap_listp
        /\ mem' = mem
        /\ mem_brk' = mem_brk
        /\ ~last'.grew /\ ~last'.growfail ]_vars

\* C12 witness: malloc(0) was called while the caller held a block and a
\* bucket was not empty.
NullRequestsWitness ==
  /\ last.op = "malloc" /\ last.size = 0
  /\ DOMAIN live # {}
  /\ Listed # {}

\* C13 (as claimed): whatever state the heap is in, mm_checkheap prints a
\* line for every block of the arena that is marked free and is not in the
\* bucket list its size selects, and for every two adjacent blocks that are
\* both marked free; it changes no bucket head and no heap word.
CheckHeapReports ==
  (last.op = "checkheap") =>
    /\ \A b \in BlockSet :
         (IsFree(b) /\ b \notin BucketSet(getIndex(GET_SIZE(mem, b))))
           => Line("did not find bucket", b) \in last.diag
    /\ \A k \in 1..(Len(ArenaBlocks) - 1) :
         (IsFree(ArenaBlocks[k]) /\ IsFree(ArenaBlocks[k + 1]))
           => \E l \in last.diag : l[2] \in {ArenaBlocks[k], ArenaBlocks[k + 1]}

\* the search for size a finds nothing: its bucket has no block that large
\* and the buckets above are empty
NoFit(a) ==
  /\ \A k \in 1..Len(Bucket(getIndex(a))) :
       GET_SIZE(mem, Bucket(getIndex(a))[k]) < a
  /\ \A j \in (getIndex(a) + 1)..(NBUCKETS - 1) : heap_listp[j] = NULL

\* C14: malloc(n), n > 0, calls the growth primitive iff bucket getIndex(a)
\* holds no block of size >= a and every higher bucket is empty, where a is
\* n + 8 rounded up to a multiple of 8.  When the arena grows it grows by
\* exactly a, the new block starts where the epilogue was and its header is
\* (a, allocated), the word before the new break is the epilogue, and no
\* bucket head and no word of an existing block changes (so a free block at
\* the end of the arena stays as it was).  When a block is found the arena
\* bounds do not change.
GrowthExact ==
  [][ \A n \in Requests :
        (last'.op = "malloc" /\ last'.size = n) =>
          LET a == 8 * ((n + 8 + 7) \div 8)
          IN  /\ (last'.grew \/ last'.growfail) <=> NoFit(a)
              /\ last'.grew =>
                   /\ mem_brk' = mem_brk + a
                   /\ last'.ret = mem_brk
                   /\ mem'[mem_brk - WSIZE] = PACK(a, 1)
                   /\ mem'[mem_brk' - WSIZE] = PACK(0, 1)
                   /\ heap_listp' = heap_listp
                   /\ \A x \in Addr : x < mem_brk - WSIZE => mem'[x] = mem[x]
              /\ ~NoFit(a) => mem_brk' = mem_brk ]_vars

\* C14 witness: the arena has just grown although its last block is free
\* (too small for the request), and that block is still there.
GrowthExactWitness ==
  /\ last.op = "malloc" /\ last.grew /\ IsBlockPtr(last.ret)
  /\ \E b \in BlockSet :
       /\ IsFree(b)
       /\ b + GET_SIZE(mem, b) = last.ret - WSIZE
       /\ b \in Listed

\* C15: the search for required size a, started in bucket i = getIndex(a),
\* returns the first block in list order of bucket i whose size is >= a,
\* with the block before it in the list (NULL for the head); if bucket i has
\* none, it returns the head of the lowest non-empty bucket above i with
\* predecessor NULL, and that block's size is >= a; it returns NULL only if
\* bucket i has no block of size >= a and all buckets above it are empty.
SearchIsFirstFit ==
  [][ \A n \in Requests :
        (last'.op \in {"malloc", "realloc"} /\ last'.size = n /\ fault' = "none") =>
          LET a == 8 * ((n + 8 + 7) \div 8)
              i == getIndex(a)
              hits == { k \in 1..Len(Bucket(i)) : GET_SIZE(mem, Bucket(i)[k]) >= a }
              above == { j \in (i + 1)..(NBUCKETS - 1) : heap_listp[j] # NULL }
          IN  IF hits # {}
              THEN LET k == CHOOSE x \in hits : \A y \in hits : x <= y
                   IN  /\ last'.fit = Bucket(i)[k]
                       /\ last'.fitprev = IF k = 1 THEN NULL ELSE Bucket(i)[k - 1]
              ELSE IF above # {}
              THEN LET j == CHOOSE x \in above : \A y \in above : x <= y
                   IN  /\ last'.fit = heap_listp[j]
                       /\ last'.fitprev = NULL
                       /\ GET_SIZE(mem, heap_listp[j]) >= a
              ELSE last'.fit = NULL ]_vars

\* C15 witness: the search passed over a block that was too small and
\* returned the one after it.
SearchWitness ==
  /\ last.op = "malloc" /\ last.placed
  /\ last.fit # NULL /\ last.fitprev # NULL

\* C16: placing required size a into a free block of size c >= a unlinks
\* the block from the bucket of its size c before the split (afterwards it
\* is in no bucket and every bucket holds what it held, less the block, plus
\* the remainder if any).  If c - a > 16 the block becomes an allocated
\* block of size exactly a followed by a free remainder of size c - a that
\* is in the bucket matching c - a; otherwise the whole block of size c is
\* allocated.  So a block that malloc takes from a free list has size s
\* with a <= s <= a + 16.
PlacementSplits ==
  [][ \A n \in Requests, b \in Addr :
        (last'.op = "malloc" /\ last'.size = n /\ last'.placed /\ last'.fit = b) =>
          LET a == 8 * ((n + 8 + 7) \div 8)
              c == GET_SIZE(mem, b)
              rem == IF c - a > 16 THEN {b + a} ELSE {}
          IN  /\ c >= a
              /\ last'.ret = b + WSIZE
              /\ b \in BucketSet(getIndex(c))
              /\ \A i \in 0..(NBUCKETS - 1) :
                   BucketSet(i)' =
                     (BucketSet(i) \ {b})
                       \cup (IF i = getIndex(c - a) THEN rem ELSE {})
              /\ last'.split = (c - a > 16)
              /\ IF c - a > 16
                 THEN /\ mem'[b] = PACK(a, 1)
                      /\ mem'[b + a - WSIZE] = PACK(a, 1)
                      /\ mem'[b + a] = PACK(c - a, 0)
                      /\ mem'[b + c - WSIZE] = PACK(c - a, 0)
                 ELSE /\ mem'[b] = PACK(c, 1)
                      /\ mem'[b + c - WSIZE] = PACK(c, 1)
              /\ \A s \in {GET_SIZE(mem', b)} : a <= s /\ s <= a + 16 ]_vars

\* C16 witness: a block of a higher bucket has just been split, and its
\* remainder is in a lower bucket than the block was.
PlacementWitness ==
  /\ last.op = "malloc" /\ last.placed /\ last.split
  /\ IsBlockPtr(last.ret)
  /\ \E r \in BlockSet :
       /\ r = (last.ret - WSIZE) + GET_SIZE(mem, last.ret - WSIZE)
       /\ IsFree(r)
       /\ getIndex(GET_SIZE(mem, r) + GET_SIZE(mem, last.ret - WSIZE))
            > getIndex(GET_SIZE(mem, r))

\* the free blocks next to block b in the arena (as sets of at most one)
LeftFree(b) == { l \in BlockSet : l + GET_SIZE(mem, l) = b /\ IsFree(l) }
RightFree(b) == { r \in BlockSet : r = b + GET_SIZE(mem, b) /\ IsFree(r) }
RECURSIVE SumSizes(_)
SumSizes(S) ==
  IF S = {} THEN 0
  ELSE LET x == CHOOSE y \in S : TRUE
       IN  GET_SIZE(mem, x) + SumSizes(S \ {x})

\* C17: free(p) of block B leaves exactly one free block in place of B and
\* its free neighbours: it starts at the left neighbour if that was free
\* (else at B), its size is the sum of the sizes of B and of each free
\* neighbour, header and footer say so, it is the head of the bucket
\* matching that size, and B and the merged neighbours are reachable from
\* no bucket any more (other than as the start of the merged block).  With
\* both neighbours allocated, B is the head of the bucket of its own size.
FreeMerges ==
  [][ \A p \in DOMAIN live :
        (last'.op = "free" /\ last'.ptr = p) =>
          LET B == p - WSIZE
              start == IF LeftFree(B) # {} THEN CHOOSE l \in LeftFree(B) : TRUE
                       ELSE B
              parts == {B} \cup LeftFree(B) \cup RightFree(B)
          IN  \A st \in {start}, total \in {SumSizes(parts)},
                 gone \in {parts \ {start}}, before \in {BlockSet},
                 listed \in {Listed} :
                /\ mem'[st] = PACK(total, 0)
                /\ mem'[st + total - WSIZE] = PACK(total, 0)
                /\ heap_listp'[getIndex(total)] = st
                /\ BlockSet' = (before \ gone) \cup {st}
                /\ Listed' = (listed \ gone) \cup {st}
                /\ last'.ccase = (IF LeftFree(B) = {}
                                  THEN (IF RightFree(B) = {} THEN 1 ELSE 3)
                                  ELSE (IF RightFree(B) = {} THEN 2 ELSE 4)) ]_vars

\* C17 witness: a block between two free neighbours has just been released,
\* and the merged block, which starts at the left neighbour and reaches
\* past the released block, is the head of its bucket.
FreeMergesWitness ==
  /\ last.op = "free" /\ last.ptr # NULL /\ last.ccase = 4
  /\ \E b \in BlockSet :
       /\ IsFree(b)
       /\ b < last.ptr - WSIZE
       /\ b + GET_SIZE(mem, b) > (last.ptr - WSIZE) + last.oldsize
       /\ heap_listp[getIndex(GET_SIZE(mem, b))] = b

\* C18: every public operation terminates from every reachable state.  No
\* list scan runs without end or off the end of a list: each bucket list
\* is finite, visits no block twice and ends in NULL, and every free block
\* of the arena (so every free neighbour that coalesce hands to find_prev)
\* is in the bucket indexed by its size.  The only operation that does not
\* return is the realloc that copies to the refusal value of a failed
\* growth.
OperationsTerminate ==
  /\ fault # "hang"
  /\ (fault # "none") => (last.op = "realloc" /\ last.growfail)
  /\ \A i \in 0..(NBUCKETS - 1) :
       /\ Len(Bucket(i)) < Fuel
       /\ Len(Bucket(i)) = Cardinality(BucketSet(i))
       /\ \A k \in 1..Len(Bucket(i)) :
            /\ Readable(Bucket(i)[k])
            /\ NEXT_FREE(mem, Bucket(i)[k]) =
                 (IF k = Len(Bucket(i)) THEN NULL ELSE Bucket(i)[k + 1])
  /\ \A b \in BlockSet :
       IsFree(b) => b \in BucketSet(getIndex(GET_SIZE(mem, b)))

\* C18 witness: a merge with the left neighbour has just taken place in
\* which find_prev had to pass another block to reach the neighbour.
OperationsTerminateWitness ==
  /\ last.op = "free" /\ last.ccase = 2
  /\ prevPtr # NULL
  /\ fault = "none"

\* C19: at every quiescent point the last word of every allocated block
\* (at header + size - 4) equals its header (same size, allocated bit set)
\* and the word before the first block is the prologue; so for every block
\* the allocated bit in the word at (block start - 4) is the allocation
\* status of the block before it in the arena, and block start minus the
\* size in that word is where that block starts.
AllocatedFootersValid ==
  /\ FIRST_BLOCK - WSIZE = PROLOGUE
  /\ mem[PROLOGUE] = PACK(0, 1)
  /\ \A b \in BlockSet :
       GET_ALLOC(mem, b) = 1 =>
         /\ GET_ALLOC(mem, b + GET_SIZE(mem, b) - WSIZE) = 1
         /\ GET_SIZE(mem, b + GET_SIZE(mem, b) - WSIZE) = GET_SIZE(mem, b)
  /\ \A k \in 1..Len(ArenaBlocks) :
       LET b == ArenaBlocks[k]
       IN  IF k = 1 THEN GET_ALLOC(mem, b - WSIZE) = 1
           ELSE /\ GET_ALLOC(mem, b - WSIZE) = GET_ALLOC(mem, ArenaBlocks[k - 1])
                /\ b - GET_SIZE(mem, b - WSIZE) = ArenaBlocks[k - 1]

\* C19 witness: a block has just been released whose left neighbour is an
\* allocated block that the caller has filled with its data.
AllocatedFootersWitness ==
  /\ last.op = "free" /\ last.ptr # NULL /\ last.ccase \in {1, 3}
  /\ \E p \in DOMAIN live :
       /\ (p - WSIZE) + GET_SIZE(mem, p - WSIZE) = last.ptr - WSIZE
       /\ \A a \in Addr : (a >= p /\ a < p + live[p]) => mem[a] = Pattern(a)

\* C20 (as claimed): for every request size n > 0 of the size type, a block
\* that malloc(n) returns has a total size of at least n + 8: the required
\* size is neither wrapped nor truncated on its way to the search, to
\* placement, to heap growth or into the header word.
WideRequestsServed ==
  (last.op = "malloc" /\ last.size > 0 /\ IsBlockPtr(last.ret)) =>
    /\ (last.ret - WSIZE) \in BlockSet
    /\ GET_SIZE(mem, last.ret - WSIZE) >= last.size + OVERHEAD

====
